---- MODULE Spec2Model ----
(***************************************************************************)
(* Hyperparameter search of ssnb/algos/td3_optuna_proto/optuna.py:         *)
(* sample_td3_params, objective and tune, together with the behaviour of   *)
(* the two libraries the file drives (OmegaConf configuration nodes and    *)
(* the Optuna study: optimize loop, storage, MedianPruner, best_trial).    *)
(*                                                                         *)
(* Specifications:                                                         *)
(*   Spec      main(): tune called with the module's own objective.        *)
(*   SpecTune  tune called with an objective callable (tune's first        *)
(*             parameter, line 90) that reports a score per step, asks     *)
(*             trial.should_prune() after each report and ends by          *)
(*             returning a value or raising.                               *)
(*   FairSpec, FairSpecTune  the same with weak fairness of the program's  *)
(*             own steps, for the liveness properties.                     *)
(* Floats are modelled by small integers; NaN and None are sentinels.      *)
(***************************************************************************)
EXTENDS Integers, Sequences, FiniteSets, TLC

VARIABLES
    heap,       \* heap[r]: the nested config nodes reachable from config r (0 = cfg)
    study,      \* cfg.study: n_trials, n_jobs, timeout, n_startup_trials, n_warmup_steps
    trials,     \* the study's trial records, in order of trial number (index = number + 1)
    frame,      \* frame[t]: the locals of the objective call that runs trial t
    futures,    \* trial indices submitted by optimize and not yet reaped
    tunePc,     \* where tune is: "optimize", "join", "report", "done", "raised"
    pendingExc, \* the exception optimize re-raises once its workers are joined
    timedOut,   \* the loop has found cfg.study.timeout elapsed
    best,       \* the storage's best_trial_id (0 = none yet)
    out         \* what tune has produced: summary printed, table written, exception
vars == <<heap, study, trials, frame, futures, tunePc, pendingExc, timedOut, best, out>>

----------------------------------------------------------------------------
\* Bounds of the model.
MaxTrials == 3      \* largest cfg.study.n_trials
MaxJobs == 2        \* largest cfg.study.n_jobs
MaxScore == 1       \* rewards range over 0..MaxScore
MaxExp == 1         \* largest exponent bound of a power-of-two parameter
MaxWarmup == 3      \* largest cfg.study.n_warmup_steps
MaxStartup == 2     \* largest cfg.study.n_startup_trials
MaxSteps == 2       \* steps a SpecTune objective runs at most

\* Sentinels for values that are not numbers.
NaN == 0 - 1        \* float("nan")
None == 0 - 2       \* Python None

Scores == 0..MaxScore
IsNaN(x) == x = NaN

RECURSIVE Pow2(_)
Pow2Sum(e) == 2 + e
Pow2(e) == IF e = 0 THEN 1 ELSE 2 * Pow2(e - 1)

----------------------------------------------------------------------------
\* OmegaConf nodes.  A node of cfg.algorithm is a {min, max} mapping, a
\* scalar, a two-element list, or absent.
Node(tag, a, b) == [tag |-> tag, a |-> a, b |-> b]
BoundsNode(lo, hi) == Node("bounds", lo, hi)
ValNode(v) == Node("val", v, v)
ListNode(x, y) == Node("list", x, y)
MissingNode == Node("missing", 0, 0)

\* The keys sample_td3_params draws, in the order of its suggest calls.
DirectKeys == {"discount_factor", "buffer_size", "batch_size", "tau_target",
               "action_noise", "actor_lr", "critic_lr"}
Pow2Keys == {"n_steps", "actor_hidden_size", "critic_hidden_size"}
DrawnKeys == DirectKeys \cup Pow2Keys
Stmts == << "discount_factor", "n_steps", "buffer_size", "batch_size", "tau_target",
            "action_noise", "actor_hidden_size", "critic_hidden_size", "actor_lr",
            "critic_lr", "n_steps:=", "max_epochs:=" >>

\* cfg.copy(): DictConfig.copy() is copy.copy, which copies the top-level
\* mapping only; the nested nodes (cfg.algorithm, its architecture, the
\* optimizers) of the copy are the very nodes of cfg.  The result is the
\* reference of the nested nodes the copy for trial t reaches.
CopyRef(t) == 0

\* The draws a trial can make: suggest_int / suggest_float return a value
\* within [low, high] of the node read from cfg (reference 0).
DrawRange(h, k) ==
    IF h[0][k].tag = "bounds" THEN h[0][k].a .. h[0][k].b ELSE {0}

\* cfg.algorithm.<k>.min raises AttributeError unless the node read is still
\* a {min, max} mapping.
ReadRaises(h, k) == h[0][k].tag # "bounds"

\* The assignment of one statement of sample_td3_params: params is
\* reference p, x the value drawn for the statement, ns the local n_steps.
SampleStmt(h, p, k, x, ns) ==
    CASE k \in DirectKeys -> [h EXCEPT ![p][k] = ValNode(x)]
      [] k \in {"actor_hidden_size", "critic_hidden_size"} ->
            [h EXCEPT ![p][k] = ListNode(Pow2(x), Pow2(x))]
      [] k = "n_steps:=" -> [h EXCEPT ![p]["n_steps"] = ValNode(ns)]
      [] k = "max_epochs:=" ->
            [h EXCEPT ![p]["max_epochs"] = ValNode(h[p]["n_timesteps"].a \div ns)]
      [] OTHER -> h

----------------------------------------------------------------------------
\* The agent object a training step works on.
NoneAgent == [none |-> TRUE, is_eval |-> FALSE, mean |-> 0, last |-> 0]
AgentStates == [none : {FALSE}, is_eval : BOOLEAN, mean : Scores, last : Scores]

\* The locals of one objective call (those of its sample_td3_params call
\* included: the statement reached, the value drawn for it, n_steps).  args
\* and rets record the agent passed
\* to, and the state returned by, each training-step call; insp records the
\* object whose is_eval the call has inspected.
NewFrame(pc0) ==
    [pc |-> pc0, line |-> 0, phase |-> "read", tmp |-> 0, n_steps |-> 0,
     ref |-> 0, agent |-> NoneAgent, max |-> None, n |-> 0,
     epoch |-> 0, nan_encountered |-> FALSE,
     args |-> << >>, rets |-> << >>, insp |-> << >>, stepExc |-> "none",
     prunedAt |-> None, completeAtPrune |-> 0,
     outcome |-> "none", outval |-> None, exc |-> "none"]

----------------------------------------------------------------------------
\* Optuna: trial records, report, pruner, tell, best trial.
NewTrial == [state |-> "RUNNING", value |-> None, iv |-> {}]

Steps(iv) == { p[1] : p \in iv }
SetMax(S) == CHOOSE x \in S : \A y \in S : y <= x
SetMin(S) == CHOOSE x \in S : \A y \in S : x <= y
At(iv, step) == (CHOOSE p \in iv : p[1] = step)[2]

\* trial.report(value, step): a step already reported keeps its first value.
TrialReport(tr, value, step) ==
    IF step \in Steps(tr.iv) THEN tr
    ELSE [tr EXCEPT !.iv = tr.iv \cup {<<step, value>>}]

Complete(trs) == { i \in DOMAIN trs : trs[i].state = "COMPLETE" }

\* Twice the median of the values the trials in S reported at a step
\* (numpy's percentile 50 interpolates between the two middle values).
Below(trs, S, step, i) ==
    { j \in S : At(trs[j].iv, step) < At(trs[i].iv, step)
                \/ (At(trs[j].iv, step) = At(trs[i].iv, step) /\ j < i) }
Ranked(trs, S, step, r) == CHOOSE i \in S : Cardinality(Below(trs, S, step, i)) = r
Median2(trs, S, step) ==
    LET n == Cardinality(S)
    IN  IF n % 2 = 1
        THEN 2 * At(trs[Ranked(trs, S, step, n \div 2)].iv, step)
        ELSE At(trs[Ranked(trs, S, step, n \div 2 - 1)].iv, step)
             + At(trs[Ranked(trs, S, step, n \div 2)].iv, step)

\* The pruner tune builds: MedianPruner(n_startup_trials, n_warmup_steps).
PrunerStartup(st) == st.n_startup_trials
PrunerWarmup(st) == st.n_warmup_steps \div 3

\* interval_steps is left at 1: the step must be the first reported at or
\* after the nearest pruning step below it.
IsFirstInIntervalStep(step, steps, warmup) ==
    LET nearest == (step - warmup) + warmup
        others == { s \in steps : s # step }
        second_last == IF others = {} THEN 0 - 1 ELSE SetMax(others)
    IN  second_last < nearest

\* The study direction tune declares.
DirectionMin == "minimize"
Direction == "maximize"

\* trial.should_prune(): MedianPruner.prune for trial t of the study.
ShouldPrune(trs, t, st) ==
    LET done == Complete(trs)
        iv == trs[t].iv
        step == SetMax(Steps(iv))
        with == { i \in done : step \in Steps(trs[i].iv) }
        bestv == IF Direction = "maximize"
                 THEN SetMax({ p[2] : p \in iv }) ELSE SetMin({ p[2] : p \in iv })
    IN  /\ done # {}
        /\ Cardinality(done) >= PrunerStartup(st)
        /\ iv # {}
        /\ step >= PrunerWarmup(st)
        /\ IsFirstInIntervalStep(step, Steps(iv), PrunerWarmup(st))
        /\ with # {}
        /\ IF Direction = "maximize"
           THEN 2 * bestv < Median2(trs, with, step)
           ELSE 2 * bestv > Median2(trs, with, step)

\* What optimize records when the objective call of a trial ends: a NaN
\* return value is not accepted and fails the trial, TrialPruned prunes it
\* (its value is the last score reported), any other exception fails it.
TellNothing(tr, kind, val, exc) == tr
Tell(tr, kind, val, exc) ==
    CASE kind = "return" /\ ~IsNaN(val) ->
            [tr EXCEPT !.state = "COMPLETE", !.value = val]
      [] kind = "return" /\ IsNaN(val) -> [tr EXCEPT !.state = "FAIL"]
      [] kind = "raise" /\ exc = "TrialPruned" ->
            [tr EXCEPT !.state = "PRUNED",
                       !.value = IF tr.iv = {} THEN None
                                 ELSE At(tr.iv, SetMax(Steps(tr.iv)))]
      [] OTHER -> [tr EXCEPT !.state = "FAIL"]

\* The storage's best trial after trial t has been told: replaced only by a
\* strictly better completed trial.
Better(a, b) == IF Direction = "maximize" THEN a > b ELSE a < b
BestAfter(b, trs, t) ==
    IF trs[t].state # "COMPLETE" THEN b
    ELSE IF b = 0 THEN t
    ELSE IF Better(trs[t].value, trs[b].value) THEN t ELSE b

\* The exceptions of an objective call that optimize re-raises (catch = ()).
Propagates(kind, exc) == kind = "raise" /\ exc # "TrialPruned"

\* tune's handler around study.optimize.
TuneCatchesNothing(exc) == FALSE
TuneCatches(exc) == exc = "KeyboardInterrupt"
AfterOptimize(exc) ==
    IF exc = "none" \/ TuneCatches(exc) THEN "report" ELSE "raised"

----------------------------------------------------------------------------
\* Initial states: the configuration main loads, before tune runs.
Keys == DrawnKeys \cup {"n_timesteps", "max_epochs", "max_epoch"}
EmptyAlgorithm == [k \in Keys |-> MissingNode]

\* Base configurations: every drawn key holds well-formed {min, max} bounds;
\* max_epoch (the key objective reads) may be absent from the file.
BaseAlgorithms ==
    { [k \in Keys |->
         CASE k = "discount_factor" -> BoundsNode(2, 2)
           [] k = "n_steps" -> BoundsNode(0, MaxExp)
           [] k = "actor_hidden_size" -> BoundsNode(1, 1)
           [] k = "critic_hidden_size" -> BoundsNode(2, 2)
           [] k = "n_timesteps" -> ValNode(5)
           [] k = "max_epochs" -> ValNode(3)
           [] k = "max_epoch" -> me
           [] OTHER -> BoundsNode(1, 1)] :
      me \in {MissingNode, ValNode(2)} }

StudyCfgs ==
    [n_trials : 1..MaxTrials, n_jobs : 1..MaxJobs, timeout : BOOLEAN,
     n_startup_trials : {0, MaxStartup}, n_warmup_steps : {0, MaxWarmup}]

NoOut == [count |-> None, best_value |-> None, rows |-> None]

InitCommon ==
    /\ trials = << >>
    /\ frame = << >>
    /\ futures = {}
    /\ tunePc = "optimize"
    /\ pendingExc = "none"
    /\ timedOut = FALSE
    /\ best = 0
    /\ out = NoOut

Init ==
    /\ \E alg \in BaseAlgorithms :
          heap = [r \in 0..MaxTrials |-> IF r = 0 THEN alg ELSE EmptyAlgorithm]
    /\ study \in { s \in StudyCfgs : s.n_startup_trials = MaxStartup /\ s.n_warmup_steps = MaxWarmup }
    /\ InitCommon

\* (A study without a timeout behaves as one whose timeout never elapses.)
InitTune ==
    /\ heap = [r \in 0..MaxTrials |-> EmptyAlgorithm]
    /\ study \in { s \in StudyCfgs : s.timeout }
    /\ InitCommon

----------------------------------------------------------------------------
\* study.optimize (line 97).
Ended(t) == frame[t].pc = "ended"
Running == { t \in DOMAIN frame : ~Ended(t) }

\* The frame of an objective call that has ended: its locals are gone, what
\* the call did and how it ended stays on record.
Returned(fr, kind, val, exc) ==
    [NewFrame("ended") EXCEPT !.args = fr.args, !.rets = fr.rets, !.insp = fr.insp,
                              !.stepExc = fr.stepExc, !.prunedAt = fr.prunedAt,
                              !.completeAtPrune = fr.completeAtPrune,
                              !.outcome = kind, !.outval = val, !.exc = exc]

\* The end of the objective call of trial t, with frame fr and the trial
\* records cur: optimize tells
\* the storage; with n_jobs = 1 a propagating exception leaves optimize at
\* once, with n_jobs > 1 it stays in the worker's future.
Finish(t, fr, cur, kind, val, exc) ==
    LET trs == [cur EXCEPT ![t] = Tell(cur[t], kind, val, exc)]
    IN  /\ trials' = trs
        /\ best' = BestAfter(best, trs, t)
        /\ frame' = [frame EXCEPT ![t] = Returned(fr, kind, val, exc)]
        /\ IF study.n_jobs = 1
           THEN /\ futures' = futures \ {t}
                /\ IF Propagates(kind, exc)
                   THEN /\ pendingExc' = exc
                        /\ tunePc' = AfterOptimize(exc)
                   ELSE UNCHANGED <<pendingExc, tunePc>>
           ELSE UNCHANGED <<futures, pendingExc, tunePc>>

\* One pass of the optimize loop that finds budget and time left: it starts
\* the next trial, whose objective call begins at pc0.  With n_jobs > 1 and
\* every worker taken it first waits for a finished future and re-raises
\* what that future raised.
WorkersNeverTaken(fs, st) == FALSE
WorkersTaken(fs, st) == Cardinality(fs) >= st.n_jobs
optimize_submit(pc0) ==
    /\ tunePc = "optimize"
    /\ Len(trials) < study.n_trials
    /\ LET done == { f \in futures : Ended(f) }
           full == WorkersTaken(futures, study)
           failed == { f \in done : Propagates(frame[f].outcome, frame[f].exc) }
           t == Len(trials) + 1
       IN  /\ full => done # {}
           /\ IF full /\ failed # {}
              THEN /\ pendingExc' = frame[SetMin(failed)].exc
                   /\ tunePc' = "join"
                   /\ futures' = futures \ done
                   /\ UNCHANGED <<trials, frame>>
              ELSE /\ trials' = Append(trials, NewTrial)
                   /\ frame' = Append(frame, NewFrame(pc0))
                   /\ futures' = (IF full THEN futures \ done ELSE futures) \cup {t}
                   /\ UNCHANGED <<pendingExc, tunePc>>
    /\ UNCHANGED <<heap, study, timedOut, best, out>>

\* A pass of the loop finds the trial budget spent, or cfg.study.timeout
\* elapsed (the clock is read at the top of a pass only): the loop ends.
optimize_exit ==
    /\ tunePc = "optimize"
    /\ study.n_jobs = 1 => futures = {}
    /\ \/ /\ Len(trials) >= study.n_trials
          /\ UNCHANGED timedOut
       \/ /\ study.timeout
          /\ Len(trials) < study.n_trials
          /\ timedOut' = TRUE
    /\ tunePc' = "join"
    /\ UNCHANGED <<heap, study, trials, frame, futures, pendingExc, best, out>>

\* Leaving the worker pool waits for the trials still running; then optimize
\* returns or raises, and tune's try statement (lines 96-99) decides.
optimize_join ==
    /\ tunePc = "join"
    /\ \A f \in futures : Ended(f)
    /\ futures' = {}
    /\ tunePc' = AfterOptimize(pendingExc)
    /\ UNCHANGED <<heap, study, trials, frame, pendingExc, timedOut, best, out>>

\* KeyboardInterrupt is raised in the main thread during the search loop.
\* With n_jobs = 1 the main thread runs the objective: the trial in progress
\* ends by that exception.  With n_jobs > 1 the workers finish their trials.
KeyboardInterrupt ==
    /\ tunePc = "optimize"
    /\ IF study.n_jobs = 1 /\ Running # {}
       THEN LET t == SetMin(Running)
            IN  Finish(t, frame[t], trials, "raise", None, "KeyboardInterrupt")
       ELSE /\ pendingExc' = "KeyboardInterrupt"
            /\ tunePc' = IF study.n_jobs = 1
                         THEN AfterOptimize("KeyboardInterrupt") ELSE "join"
            /\ UNCHANGED <<trials, frame, futures, best>>
    /\ UNCHANGED <<heap, study, timedOut, out>>

\* Lines 101-115: the number of trials, study.best_trial (ValueError when no
\* trial is complete), the summary and the trial table.
tune_report ==
    /\ tunePc = "report"
    /\ IF best = 0
       THEN /\ tunePc' = "raised"
            /\ out' = [out EXCEPT !.count = Len(trials)]
       ELSE /\ tunePc' = "done"
            /\ out' = [out EXCEPT !.count = Len(trials),
                                  !.best_value = trials[best].value,
                                  !.rows = Len(trials)]
    /\ UNCHANGED <<heap, study, trials, frame, futures, pendingExc, timedOut, best>>

----------------------------------------------------------------------------
\* sample_td3_params (lines 17-56), called at line 59, one statement at a
\* time: line 20 copies cfg; a suggest statement first reads its bounds from
\* cfg and draws (the sampler runs in between), then assigns to the copy's
\* node; lines 53-54 assign n_steps and the derived max_epochs.
sample_td3_params(t) ==
    /\ t \in DOMAIN frame
    /\ frame[t].pc = "sample"
    /\ LET f == frame[t]
           k == Stmts[f.line]
       IN  IF f.line = 0
           THEN /\ heap' = [heap EXCEPT ![CopyRef(t)] = heap[0]]
                /\ frame' = [frame EXCEPT ![t] = [f EXCEPT !.ref = CopyRef(t), !.line = 1]]
                /\ UNCHANGED <<trials, futures, tunePc, pendingExc, best>>
           ELSE IF k \in DrawnKeys /\ f.phase = "read"
           THEN IF ReadRaises(heap, k)
                THEN /\ Finish(t, f, trials, "raise", None, "AttributeError")
                     /\ UNCHANGED heap
                ELSE /\ \E x \in DrawRange(heap, k) :
                          frame' = [frame EXCEPT ![t] =
                             IF k = "n_steps"
                             THEN [f EXCEPT !.n_steps = Pow2(x), !.line = @ + 1]
                             ELSE [f EXCEPT !.tmp = x, !.phase = "assign"]]
                     /\ UNCHANGED <<heap, trials, futures, tunePc, pendingExc, best>>
           ELSE /\ heap' = SampleStmt(heap, f.ref, k, f.tmp, f.n_steps)
                /\ frame' = [frame EXCEPT ![t] =
                                IF f.line = Len(Stmts)
                                THEN [f EXCEPT !.pc = "enter", !.phase = "read", !.tmp = 0]
                                ELSE [f EXCEPT !.line = @ + 1, !.phase = "read",
                                               !.tmp = 0]]
                /\ UNCHANGED <<trials, futures, tunePc, pendingExc, best>>
    /\ UNCHANGED <<study, timedOut, out>>

\* The except clause of objective (line 79).
ObjectiveCatchesNothing(exc) == FALSE
ObjectiveCatchesAll(exc) == TRUE
ObjectiveCatches(exc) == exc = "AssertionError"

\* An exception raised inside the try statement of objective (lines 62-82):
\* the handler sets nan_encountered, anything else leaves the call.
Raise(t, fr, cur, exc) ==
    IF ObjectiveCatches(exc)
    THEN /\ frame' = [frame EXCEPT ![t] =
                         [fr EXCEPT !.nan_encountered = TRUE, !.pc = "return"]]
         /\ trials' = cur
         /\ UNCHANGED <<futures, tunePc, pendingExc, best>>
    ELSE Finish(t, fr, cur, "raise", None, exc)

\* Lines 60-68: agent = None, the budget field max_epoch is read (an absent
\* key raises) and overwritten with 1, and range() is evaluated on the field.
objective_enter(t) ==
    /\ t \in DOMAIN frame
    /\ frame[t].pc = "enter"
    /\ LET r == frame[t].ref
           node == heap[r]["max_epoch"]
           h1 == [heap EXCEPT ![r]["max_epoch"] = ValNode(1)]
       IN  IF node.tag = "missing"
           THEN /\ Raise(t, frame[t], trials, "AttributeError")
                /\ UNCHANGED heap
           ELSE /\ heap' = h1
                /\ frame' = [frame EXCEPT ![t] =
                                [@ EXCEPT !.agent = NoneAgent, !.max = node.a,
                                          !.n = h1[r]["max_epoch"].a,
                                          !.epoch = 0, !.pc = "loop"]]
                /\ UNCHANGED <<trials, futures, tunePc, pendingExc, best>>
    /\ UNCHANGED <<study, timedOut, out>>

\* What a training step can do: return an agent state, raise the
\* value-validity failure, or raise something else.
StepOutcomes ==
    [kind : {"return"}, agent : AgentStates, exc : {"none"}]
    \cup [kind : {"raise"}, agent : {NoneAgent},
          exc : {"AssertionError", "RuntimeError"}]

\* Lines 68-69 and 77: the next iteration calls the training step with the
\* local agent and drops what it returns; after the last iteration the
\* budget field is restored.
run_algo(t) ==
    /\ t \in DOMAIN frame
    /\ frame[t].pc = "loop"
    /\ IF frame[t].epoch < frame[t].n
       THEN /\ \E o \in StepOutcomes :
                 LET fr == [frame[t] EXCEPT !.args = Append(@, frame[t].agent),
                                            !.stepExc = o.exc]
                 IN  IF o.kind = "return"
                     THEN /\ frame' = [frame EXCEPT ![t] =
                                          [fr EXCEPT !.rets = Append(@, o.agent),
                                                     !.pc = "inspect"]]
                          /\ UNCHANGED <<trials, futures, tunePc, pendingExc, best>>
                     ELSE Raise(t, fr, trials, o.exc)
            /\ UNCHANGED heap
       ELSE /\ heap' = [heap EXCEPT ![frame[t].ref]["max_epoch"] = ValNode(frame[t].max)]
            /\ frame' = [frame EXCEPT ![t].pc = "return"]
            /\ UNCHANGED <<trials, futures, tunePc, pendingExc, best>>
    /\ UNCHANGED <<study, timedOut, out>>

\* Lines 71-75: the local agent is inspected; an evaluation pass is
\* reported with the epoch, and the pruner is asked.
inspect(t) ==
    /\ t \in DOMAIN frame
    /\ frame[t].pc = "inspect"
    /\ LET a == frame[t].agent
           fr == [frame[t] EXCEPT !.insp = Append(@, a)]
           trs == [trials EXCEPT ![t] = TrialReport(@, a.mean, frame[t].epoch)]
       IN  IF a.none
           THEN Raise(t, fr, trials, "AttributeError")
           ELSE IF a.is_eval /\ ShouldPrune(trs, t, study)
           THEN Raise(t, [fr EXCEPT !.prunedAt = frame[t].epoch,
                                    !.completeAtPrune = Cardinality(Complete(trs))],
                      trs, "TrialPruned")
           ELSE /\ frame' = [frame EXCEPT ![t] =
                                [fr EXCEPT !.epoch = @ + 1, !.pc = "loop"]]
                /\ trials' = IF a.is_eval THEN trs ELSE trials
                /\ UNCHANGED <<futures, tunePc, pendingExc, best>>
    /\ UNCHANGED <<heap, study, timedOut, out>>

\* Lines 84-88: NaN after the handler ran, else the agent's last mean reward.
objective_return(t) ==
    /\ t \in DOMAIN frame
    /\ frame[t].pc = "return"
    /\ IF frame[t].nan_encountered
       THEN Finish(t, frame[t], trials, "return", NaN, "none")
       ELSE IF frame[t].agent.none
       THEN Finish(t, frame[t], trials, "raise", None, "AttributeError")
       ELSE Finish(t, frame[t], trials, "return", frame[t].agent.last, "none")
    /\ UNCHANGED <<heap, study, timedOut, out>>

Next ==
    \/ optimize_submit("sample")
    \/ optimize_exit
    \/ optimize_join
    \/ KeyboardInterrupt
    \/ tune_report
    \/ \E t \in 1..MaxTrials :
          \/ sample_td3_params(t)
          \/ objective_enter(t)
          \/ run_algo(t)
          \/ inspect(t)
          \/ objective_return(t)

Spec == Init /\ [][Next]_vars

----------------------------------------------------------------------------
\* tune with an objective argument other than the module's (line 90): the
\* callable optimize runs per trial performs steps, reports a score with the
\* step index after each, raises TrialPruned when trial.should_prune() says
\* so, and ends by returning a score (or NaN) or by raising.
func_step(t) ==
    /\ t \in DOMAIN frame
    /\ frame[t].pc = "func"
    /\ frame[t].epoch < MaxSteps
    /\ \E v \in Scores :
          LET trs == [trials EXCEPT ![t] = TrialReport(@, v, frame[t].epoch)]
          IN  IF ShouldPrune(trs, t, study)
              THEN Finish(t, [frame[t] EXCEPT !.prunedAt = frame[t].epoch,
                                  !.completeAtPrune = Cardinality(Complete(trs))],
                          trs, "raise", None, "TrialPruned")
              ELSE /\ frame' = [frame EXCEPT ![t].epoch = @ + 1]
                   /\ trials' = trs
                   /\ UNCHANGED <<futures, tunePc, pendingExc, best>>
    /\ UNCHANGED <<heap, study, timedOut, out>>

func_return(t) ==
    /\ t \in DOMAIN frame
    /\ frame[t].pc = "func"
    /\ \E v \in Scores \cup {NaN} : Finish(t, frame[t], trials, "return", v, "none")
    /\ UNCHANGED <<heap, study, timedOut, out>>

func_raise(t) ==
    /\ t \in DOMAIN frame
    /\ frame[t].pc = "func"
    /\ Finish(t, frame[t], trials, "raise", None, "RuntimeError")
    /\ UNCHANGED <<heap, study, timedOut, out>>

NextTune ==
    \/ optimize_submit("func")
    \/ optimize_exit
    \/ optimize_join
    \/ KeyboardInterrupt
    \/ tune_report
    \/ \E t \in 1..MaxTrials :
          \/ func_step(t)
          \/ func_return(t)
          \/ func_raise(t)

SpecTune == InitTune /\ [][NextTune]_vars

\* The same scheduling as FairSpec, for tune with an objective argument whose
\* calls end.
ProgressTune ==
    \/ optimize_submit("func")
    \/ optimize_exit
    \/ optimize_join
    \/ tune_report
    \/ \E t \in 1..MaxTrials :
          \/ func_step(t)
          \/ func_return(t)
          \/ func_raise(t)

\* Liveness is checked for the studies whose pruner has no warm-up.
InitTuneNoWarmup ==
    /\ InitTune
    /\ study.n_startup_trials = 0
    /\ study.n_warmup_steps = 0

FairSpecTune == InitTuneNoWarmup /\ [][NextTune]_vars /\ WF_vars(ProgressTune)

----------------------------------------------------------------------------
\* Claims about objective, checked under Spec.

Interrupted(t) == frame[t].exc = "KeyboardInterrupt"
LastReported(t) == At(trials[t].iv, SetMax(Steps(trials[t].iv)))

\* C1: a trial in which every training step returned, which the pruner did
\* not prune and which no interrupt cut short ends completed, and its value
\* is the mean reward reported last.
C1_CompletesWithLastMean ==
    \A t \in DOMAIN frame :
        ( /\ Ended(t)
          /\ Len(frame[t].rets) >= 1
          /\ frame[t].stepExc = "none"
          /\ frame[t].prunedAt = None
          /\ ~Interrupted(t) )
        => /\ frame[t].outcome = "return"
           /\ trials[t].state = "COMPLETE"
           /\ trials[t].iv # {} => trials[t].value = LastReported(t)

\* C2: the first training-step call of a trial receives None, each later
\* call the state the call before it returned, and what is inspected after
\* a step is the state that step returned.
C2_StateIsThreaded ==
    \A t \in DOMAIN frame :
        /\ \A i \in DOMAIN frame[t].args :
              frame[t].args[i] = IF i = 1 THEN NoneAgent ELSE frame[t].rets[i - 1]
        /\ \A i \in DOMAIN frame[t].insp : frame[t].insp[i] = frame[t].rets[i]

\* C3: a trial whose first training step raises AssertionError ends by
\* objective returning NaN, not by an exception, and is recorded as failed
\* with no value.
FirstStepAsserted(t) == Len(frame[t].args) = 1 /\ frame[t].stepExc = "AssertionError"
C3_FirstStepAssertionGivesNaN ==
    \A t \in DOMAIN frame :
        FirstStepAsserted(t) /\ ~Interrupted(t)
        => /\ frame[t].pc \in {"return", "ended"}
           /\ Ended(t) => /\ frame[t].outcome = "return"
                          /\ IsNaN(frame[t].outval)
                          /\ trials[t].state = "FAIL"
                          /\ trials[t].value = None
C3_Witness ==
    \E t \in DOMAIN frame :
        /\ FirstStepAsserted(t)
        /\ Ended(t)
        /\ IsNaN(frame[t].outval)
        /\ trials[t].state = "FAIL"

\* C6: no step of sampling or of a trial changes the base configuration.
C6_CfgNeverChanges == [][heap'[0] = heap[0]]_vars

\* C9: an exception of a training step other than AssertionError leaves
\* objective as that exception: the call returns no value, NaN or other,
\* and the trial is not completed.
C9_OtherExceptionPropagates ==
    \A t \in DOMAIN frame :
        frame[t].stepExc = "RuntimeError"
        => /\ Ended(t)
           /\ frame[t].outcome = "raise"
           /\ frame[t].exc = "RuntimeError"
           /\ frame[t].outval = None
           /\ trials[t].state = "FAIL"
           /\ trials[t].value = None
C9_Witness ==
    \E t \in DOMAIN frame :
        /\ frame[t].stepExc = "RuntimeError"
        /\ frame[t].outcome = "raise"
        /\ tunePc \in {"raised", "join", "optimize"}

----------------------------------------------------------------------------
\* Scheduling.  The main thread and the worker threads of optimize keep
\* running: a step of the program that stays possible is eventually taken
\* (a training step is taken to end, by returning or by raising).  The
\* interrupt and the clock passing the timeout are the environment's and
\* are not forced.
Progress ==
    \/ optimize_submit("sample")
    \/ optimize_exit
    \/ optimize_join
    \/ tune_report
    \/ \E t \in 1..MaxTrials :
          \/ sample_td3_params(t)
          \/ objective_enter(t)
          \/ run_algo(t)
          \/ inspect(t)
          \/ objective_return(t)

FairSpec == Init /\ [][Next]_vars /\ WF_vars(Progress)

InterruptOccurred ==
    \/ pendingExc = "KeyboardInterrupt"
    \/ \E t \in DOMAIN frame : Interrupted(t)

\* C10: a trial that ended failed is never run again, its record and its
\* call stay as they are; and the study goes on: with a failed trial, trials
\* left in the budget, no timeout and no interrupt, a further trial is
\* eventually started.
C10_FailedTrialIsFinalStudyGoesOn ==
    /\ [][\A t \in DOMAIN trials :
             trials[t].state = "FAIL"
             => trials'[t] = trials[t] /\ frame'[t] = frame[t]]_vars
    /\ \A n \in 1..MaxTrials :
          []( ( /\ Len(trials) = n
                /\ n < study.n_trials
                /\ \E t \in DOMAIN trials : trials[t].state = "FAIL" )
              => <>(Len(trials) > n \/ timedOut \/ InterruptOccurred) )

----------------------------------------------------------------------------
\* Claims about tune, checked under SpecTune.

LoopEnded == tunePc \in {"report", "done", "raised"}

\* C5: a trial is pruned only once cfg.study.n_warmup_steps steps
\* of it have run (the step reported last counts) and only once
\* cfg.study.n_startup_trials trials of the study are complete.
C5_PrunedAfterConfiguredWarmup ==
    \A t \in DOMAIN frame :
        frame[t].prunedAt # None
        => /\ frame[t].prunedAt + 1 >= study.n_warmup_steps
           /\ frame[t].completeAtPrune >= study.n_startup_trials

\* C7: once the search loop has ended, the best trial is a completed trial
\* of maximum value (failed and pruned trials do not count); among trials of
\* equal value it is the one that completed first, the lowest-numbered one
\* when n_jobs = 1; every started trial has a record with a terminal
\* status, and the table tune writes has one row per started trial.
BestIsMax ==
    IF Complete(trials) = {} THEN best = 0
    ELSE /\ best \in Complete(trials)
         /\ \A c \in Complete(trials) : trials[c].value <= trials[best].value
BestIsEarliest ==
    \A c \in Complete(trials) : trials[c].value = trials[best].value => best <= c
AllTerminal ==
    \A t \in DOMAIN trials : trials[t].state \in {"COMPLETE", "PRUNED", "FAIL"}
C8_InterruptNeverRaises ==
    pendingExc = "KeyboardInterrupt"
    => /\ tunePc \in {"join", "report", "done"}
       /\ tunePc = "done" => out.rows = Len(trials)

----------------------------------------------------------------------------
LoopStoppedQuietly ==
    /\ tunePc \in {"join", "report"}
    /\ pendingExc \in {"none", "KeyboardInterrupt"}
Reported ==
    /\ tunePc = "done"
    /\ out.count = Len(trials)
    /\ out.best_value = trials[best].value
    /\ out.rows = Len(trials)
----------------------------------------------------------------------------
\* Claims about sample_td3_params, checked under Spec.

\* The configuration a sample_td3_params call has returned to objective
\* (line 59), before objective touches it.
SampleReturned(t) == frame[t].pc = "enter"
ResolvedConfig(t) == heap[frame[t].ref]

\* C12: in the configuration sample_td3_params returns, with s = n_steps and
\* B = n_timesteps, the derived max_epochs m satisfies m * s <= B < (m + 1) * s.
C12_DerivedIterationCount ==
    \A t \in DOMAIN frame :
        SampleReturned(t)
        => LET s == ResolvedConfig(t)["n_steps"].a
               B == ResolvedConfig(t)["n_timesteps"].a
               m == ResolvedConfig(t)["max_epochs"].a
           IN  m * s <= B /\ B < (m + 1) * s

\* C13: in the configuration sample_td3_params returns, n_steps is 2^e for
\* an exponent e within the bounds cfg gives for it, and each hidden-size
\* parameter is a pair whose two layers carry the same 2^e, e within its
\* bounds.
BaseBounds(k) == (CHOOSE alg \in BaseAlgorithms : TRUE)[k]
IsPowerOfTwoWithin(v, k) == \E e \in BaseBounds(k).a .. BaseBounds(k).b : v = 2^e
C13_PowerOfTwoWithinBounds ==
    \A t \in DOMAIN frame :
        SampleReturned(t)
        => /\ ResolvedConfig(t)["n_steps"].tag = "val"
           /\ IsPowerOfTwoWithin(ResolvedConfig(t)["n_steps"].a, "n_steps")
           /\ IsPowerOfTwoWithin(frame[t].n_steps, "n_steps")
           /\ \A k \in {"actor_hidden_size", "critic_hidden_size"} :
                 /\ ResolvedConfig(t)[k].tag = "list"
                 /\ ResolvedConfig(t)[k].a = ResolvedConfig(t)[k].b
                 /\ IsPowerOfTwoWithin(ResolvedConfig(t)[k].a, k)
C13_Witness ==
    \E t \in DOMAIN frame :
        /\ SampleReturned(t)
        /\ ResolvedConfig(t)["n_steps"] = ValNode(2^MaxExp)
        /\ ResolvedConfig(t)["actor_hidden_size"] = ListNode(2, 2)
        /\ ResolvedConfig(t)["critic_hidden_size"] = ListNode(4, 4)

\* C14: the configurations of two running trials share no mutable state: a
\* step of one trial that writes its configuration (a sampled parameter, a
\* derived field, the overwrite of max_epoch) leaves the configuration of
\* every other running trial as it was.
HasConfig(t) == ~Ended(t) /\ (frame[t].pc = "sample" => frame[t].line >= 1)
C14_ConfigsAreNotShared ==
    [][\A t, u \in DOMAIN frame :
          ( /\ t # u
            /\ HasConfig(t) /\ HasConfig(u)
            /\ frame'[t] # frame[t]
            /\ frame'[u] = frame[u] )
          => heap'[frame[u].ref] = heap[frame[u].ref]]_vars

----------------------------------------------------------------------------
\* Claims about the study tune runs, checked under SpecTune.

\* C15: at any time at most cfg.study.n_jobs trials are running, and at most
\* cfg.study.n_trials trials have been started.
RunningTrials == { t \in DOMAIN trials : trials[t].state = "RUNNING" }
C15_JobsAndBudgetBound ==
    /\ Cardinality(RunningTrials) <= study.n_jobs
    /\ Cardinality(Running) <= study.n_jobs
    /\ Len(trials) <= study.n_trials
    /\ Len(frame) = Len(trials)
C15_Witness ==
    /\ study.n_jobs = MaxJobs
    /\ study.n_trials = MaxTrials
    /\ Cardinality(RunningTrials) = MaxJobs
    /\ Len(trials) = MaxTrials

\* C16: a trial starts running, reaches one terminal status (completed,
\* pruned or failed) when its objective call ends, and from then on its
\* status, its value and its (step, score) observations never change.
Terminal(tr) == tr.state \in {"COMPLETE", "PRUNED", "FAIL"}
C16_TrialStateMachine ==
    /\ [](\A t \in DOMAIN trials :
             /\ trials[t].state \in {"RUNNING", "COMPLETE", "PRUNED", "FAIL"}
             /\ Ended(t) <=> Terminal(trials[t])
             /\ trials[t].state = "RUNNING" => trials[t].value = None)
    /\ [][\A t \in DOMAIN trials' :
             IF t \in DOMAIN trials
             THEN Terminal(trials[t]) => trials'[t] = trials[t]
             ELSE trials'[t] = NewTrial]_vars
C16_Witness ==
    \E t, u \in DOMAIN trials :
        /\ trials[t].state = "PRUNED" /\ trials[t].iv # {}
        /\ trials[u].state = "COMPLETE" /\ trials[u].iv # {}
        /\ \E w \in DOMAIN trials : trials[w].state = "FAIL"

----------------------------------------------------------------------------
\* Claims about termination, checked under FairSpec.

TrainingStepsStarted(t) == Len(frame[t].args)

\* C17: every started trial eventually reaches a terminal status and the
\* search loop eventually ends; once an interrupt has arrived no trial
\* starts a further training step (it is honoured by the end of the step
\* in progress at the latest).
C17_TerminatesAndHonoursInterrupt ==
    /\ \A t \in 1..MaxTrials :
          (t \in DOMAIN trials) ~> (t \in DOMAIN trials /\ Terminal(trials[t]))
    /\ <>(tunePc \in {"report", "done", "raised"})
    /\ [][InterruptOccurred
          => \A t \in DOMAIN frame :
                TrainingStepsStarted(t)' = TrainingStepsStarted(t)]_vars

----------------------------------------------------------------------------
\* Claims about the loop of objective, checked under Spec.

\* C18: once objective has inspected the outcome of its step k, a score is
\* on record for step k exactly when the state that step returned shows a
\* completed evaluation pass, and that score is the state's mean reward.
C18_ReportsExactlyEvaluatedSteps ==
    \A t \in DOMAIN frame :
        \A i \in 1..Len(frame[t].insp) :
            /\ frame[t].rets[i].is_eval <=> (i - 1) \in Steps(trials[t].iv)
            /\ frame[t].rets[i].is_eval
               => <<i - 1, frame[t].rets[i].mean>> \in trials[t].iv

\* C19: the budget objective saves before it overwrites the field with 1 is
\* the iteration count sample_td3_params derived (max_epochs), the loop runs
\* that many training steps, and a trial that went through the loop made
\* exactly that many calls.
InLoop(t) == frame[t].pc \in {"loop", "inspect"}
C19_LoopRunsDerivedCount ==
    \A t \in DOMAIN frame :
        /\ InLoop(t)
           => /\ frame[t].max = ResolvedConfig(t)["max_epochs"].a
              /\ frame[t].n = frame[t].max
        /\ (frame[t].pc = "return" /\ ~frame[t].nan_encountered)
           => TrainingStepsStarted(t) = ResolvedConfig(t)["max_epochs"].a

====
